---- MODULE Spec2Model ----
(***************************************************************************)
(* State-machine model of the GD32H7xx demo suite:                         *)
(*   - usbh_usr.c     : the USB mass-storage host demo (SpecUsb)           *)
(*   - gd32h7xx_it.c  : fault stubs and the Ethernet receive relay         *)
(*                      (SpecIrq)                                          *)
(*   - main.c         : Ethernet demo start-up, superloop, delay_10ms      *)
(*                      (SpecNet, SpecDelay)                               *)
(*   - netconf.c      : lwIP timers and the DHCP address state machine     *)
(*                      (SpecNet)                                          *)
(* Each specification moves the variables of its own part and leaves the   *)
(* others at their initial values.                                         *)
(***************************************************************************)
EXTENDS Integers, Sequences, FiniteSets, TLC

VARIABLES
    \* ---- usbh_usr.c
    usbh_usr_application_state, \* the demo state (uint8_t global)
    usb_pc,            \* position inside usbh_usr_msc_application ("idle": not in a call)
    connect_status,    \* msc_host_core.host.connect_status (set/cleared by the USB interrupt)
    line_idx,          \* uint8_t line_idx
    stack,             \* active explore_disk invocations, outermost first
    entry_state,       \* observation: the demo state when the current/last call was entered
    ret,               \* observation: return value of the last finished call
    mount_res,         \* observation: result of f_mount in the current/last call ("none": not called)
    lun_called,        \* observation: usbh_msc_lun_info_get was called in the current/last call
    usb_op,            \* observation: kind of the last step ("app", "deinit", "env")
    loop_exit,         \* observation: the last step left a polling/read loop
    explore_obs        \* observation: the explore_disk call of the last step: who made it
                       \* ("readlist", "entry", "none"), for an entry its level and
                       \* attribute byte, and the recu_level passed (0: no call)

usbVars == <<usbh_usr_application_state, usb_pc, connect_status, line_idx, stack,
             entry_state, ret, mount_res, lun_called, usb_op, loop_exit, explore_obs>>

VARIABLES
    \* ---- gd32h7xx_it.c (FreeRTOS tcpudp project)
    use_enet,          \* build configuration: the interfaces n with USE_ENETn defined
    dma_rs,            \* ENET_DMA_INT_FLAG_RS of ENETn (receive status, set by the DMA)
    dma_ni,            \* ENET_DMA_INT_FLAG_NI of ENETn (normal interrupt summary)
    isr,               \* ENETn_IRQHandler: position, local and observations of the invocation
    irq_stack,         \* the active ENET handlers, the running (innermost) one last
    sem_given,         \* g_rx_semaphore holds a token
    fault              \* the fault/exception stub the processor is in ("none": in none)

irqVars == <<use_enet, dma_rs, dma_ni, isr, irq_stack, sem_given, fault>>

VARIABLES
    \* ---- main.c and netconf.c (raw Ethernet projects)
    net_cfg,           \* build configuration: enet (the n with USE_ENETn), USE_ENET_INTERRUPT,
                       \* TIMEOUT_CHECK_USE_LWIP, USE_DHCP
    main_pc,           \* position of main: "init", then "rx0", "rx1", "timers" in the superloop
    init_log,          \* observation: the start-up calls main has made, in order
    loop_trace,        \* observation: what the current superloop iteration has done
    rx_size,           \* observation: the last enet_rxframe_size_get(ENETn) of the superloop
    g_localtime,       \* uint32_t g_localtime, as <<high half, low half>>
    net_bursts,        \* number of tick bursts so far (bounds the run)
    tcpcurtime, arpcurtime, finecurtime, coarsecurtime,  \* uint32_t time stamps of netconf.c
    dhcp_addr_status,  \* dhcp_addr_status
    ip_address,        \* ip_address.addr ("zero", "dhcp", "static")
    netif,             \* g_mynetifN: ip_addr and the DHCP client data (netif_dhcp_data)
    lib_calls,         \* observation: calls of dhcp_start/dhcp_stop/netif_set_addr so far
    dhcp_obs,          \* observation: the last lwip_dhcp_address_get call
    tc_obs,            \* observation: the last lwip_timeouts_check call
    net_halted,        \* the program was stopped by a fault
    tmr_obs,           \* observation: the time since each timer ran, and what the last
                       \* lwip_timeouts_check call was given and did
    \* ---- delay_10ms
    g_timedelay,       \* uint32_t g_timedelay
    delay_pc,          \* "idle", "wait" (in the while loop), "done" (returned)
    delay_ncount,      \* observation: the argument of the current/last call
    delay_ticks        \* observation: runs of time_update since the call

netVars == <<net_cfg, main_pc, init_log, loop_trace, rx_size, g_localtime, net_bursts,
             tcpcurtime, arpcurtime, finecurtime, coarsecurtime, dhcp_addr_status,
             ip_address, netif, lib_calls, dhcp_obs, tc_obs, net_halted, tmr_obs>>

delayVars == <<g_timedelay, delay_pc, delay_ncount, delay_ticks>>

vars == <<usbVars, irqVars, netVars, delayVars>>

----------------------------------------------------------------------------
(* Bounds *)

\* longest directory listing f_readdir delivers for one directory
MaxEntries == 6

\* number of tick bursts in a run of the Ethernet demo
MaxBursts == 5

\* largest value of the DHCP client's tries counter that is told apart
MaxTries == 5

\* largest argument of delay_10ms and most ticks followed during one delay
MaxNcount == 12

MaxDelayTicks == 3

----------------------------------------------------------------------------
(* usbh_usr.c *)

\* the demo states in the order of the enum
FsStates == <<"USBH_USR_FS_INIT", "USBH_USR_FS_READLIST", "USBH_USR_FS_WRITEFILE", "USBH_USR_FS_DEMOEND">>

Rank(s) == CHOOSE i \in 1..Len(FsStates) : FsStates[i] = s

\* FRESULT values of the filesystem library that the demo distinguishes
FResults == {"FR_OK", "FR_DISK_ERR"}

\* key levels returned by gd_eval_key_state_get
KeyLevels == {"SET", "RESET"}

\* attribute bytes of a directory entry, as the set of AM_ bits that are set
Attribs == {{}, {"AM_ARC"}, {"AM_DIR"}, {"AM_DIR", "AM_RDO"}}

\* AM_DIR == fno.fattrib : the whole byte is compared with the directory bit
IsDirAttrib(a) == a = {"AM_DIR"}

\* first character of fno.fname: a dot entry or an ordinary name
NameKinds == {"dot", "name"}

Frame(level, n) == [level |-> level, remaining |-> n, fattrib |-> {}]

\* while(connect_status && WAITING == gd_eval_key_state_get(KEY)) toggle_leds();
PollWaits_NoConnectTest(key, waiting) == key = waiting
PollWaits(key, waiting) == connect_status = 1 /\ key = waiting

ExploreCall(by, level, fattrib, recu) ==
    [by |-> by, level |-> level, fattrib |-> fattrib, recu |-> recu]

NoCall == ExploreCall("none", 0, {}, 0)

\* what every step of this part records, and the other parts stay as they are
UsbStep(op, left, call) == /\ usb_op' = op
                           /\ loop_exit' = left
                           /\ explore_obs' = call
                           /\ UNCHANGED <<irqVars, netVars, delayVars>>

UsbObs(op, left) == UsbStep(op, left, NoCall)

\* usbh_user_deinit
usbh_user_deinit ==
    /\ usb_pc = "idle"
    /\ usbh_usr_application_state' = "USBH_USR_FS_INIT"
    /\ UsbObs("deinit", FALSE)
    /\ UNCHANGED <<usb_pc, connect_status, line_idx, stack, entry_state, ret, mount_res, lun_called>>

\* the USB interrupt reports a disconnect / a connect
DeviceDisconnect ==
    /\ connect_status = 1
    /\ connect_status' = 0
    /\ UsbObs("env", FALSE)
    /\ UNCHANGED <<usbh_usr_application_state, usb_pc, line_idx, stack, entry_state, ret, mount_res, lun_called>>

DeviceConnect ==
    /\ connect_status = 0
    /\ connect_status' = 1
    /\ UsbObs("env", FALSE)
    /\ UNCHANGED <<usbh_usr_application_state, usb_pc, line_idx, stack, entry_state, ret, mount_res, lun_called>>

\* entry of usbh_usr_msc_application: the observations of the call start afresh
CallEntry ==
    /\ usb_pc = "idle"
    /\ entry_state' = usbh_usr_application_state

\* case USBH_USR_FS_INIT
NextAfterMount_Skip == "USBH_USR_FS_WRITEFILE"
NextAfterMount == "USBH_USR_FS_READLIST"

MountFailed_Never(mres) == FALSE
MountFailed(mres) == mres # "FR_OK"

MscAppInit ==
    /\ CallEntry
    /\ usbh_usr_application_state = "USBH_USR_FS_INIT"
    /\ \E mres \in FResults :
          /\ mount_res' = mres
          /\ IF MountFailed(mres)
             THEN /\ ret' = -1
                  /\ lun_called' = FALSE
                  /\ UNCHANGED usbh_usr_application_state
             ELSE /\ ret' = 0
                  /\ lun_called' = TRUE
                  /\ usbh_usr_application_state' = NextAfterMount
    /\ UsbObs("app", FALSE)
    /\ UNCHANGED <<usb_pc, connect_status, line_idx, stack>>

\* case USBH_USR_FS_READLIST, up to the Tamper polling loop
MscAppReadlist ==
    /\ CallEntry
    /\ usbh_usr_application_state = "USBH_USR_FS_READLIST"
    /\ usb_pc' = "rl_poll"
    /\ mount_res' = "none"
    /\ lun_called' = FALSE
    /\ UsbObs("app", FALSE)
    /\ UNCHANGED <<usbh_usr_application_state, connect_status, line_idx, stack, ret>>

\* explore_disk("0:/", 1) has returned: the rest of case USBH_USR_FS_READLIST
ReadlistDone ==
    /\ line_idx' = 0
    /\ usbh_usr_application_state' = "USBH_USR_FS_WRITEFILE"
    /\ ret' = 0
    /\ usb_pc' = "idle"
    /\ stack' = <<>>

\* the top explore_disk invocation returns
ExploreReturn ==
    IF Len(stack) <= 1
    THEN ReadlistDone
    ELSE /\ stack' = SubSeq(stack, 1, Len(stack) - 1)
         /\ usb_pc' = "ex_loop"
         /\ UNCHANGED <<line_idx, usbh_usr_application_state, ret>>

\* the Tamper polling loop of case USBH_USR_FS_READLIST, then the call
\* explore_disk("0:/", 1) up to its f_opendir
PollTamperReadlist ==
    /\ usb_pc = "rl_poll"
    /\ \E key \in KeyLevels :
          IF PollWaits(key, "SET")
          THEN /\ UsbObs("app", FALSE)
               /\ UNCHANGED <<usbh_usr_application_state, usb_pc, line_idx, stack, ret>>
          ELSE /\ UsbStep("app", TRUE, ExploreCall("readlist", 0, {}, 1))
               /\ \E ores \in FResults, n \in 0..MaxEntries :
                     IF ores = "FR_OK"
                     THEN /\ stack' = <<Frame(1, n)>>
                          /\ usb_pc' = "ex_loop"
                          /\ UNCHANGED <<usbh_usr_application_state, line_idx, ret>>
                     ELSE ReadlistDone
    /\ UNCHANGED <<connect_status, entry_state, mount_res, lun_called>>

Top == stack[Len(stack)]

SetTop(f) == [stack EXCEPT ![Len(stack)] = f]

\* line_idx++ on a uint8_t
LineIdxInc(i) == (i + 1) % 256

\* one pass of while(connect_status) in explore_disk, from the loop test to
\* the "Press Tamper Key to continue" test
ReaddirConsumes(f) == [f EXCEPT !.remaining = f.remaining - 1]

ExploreReaddir ==
    /\ usb_pc = "ex_loop"
    /\ IF connect_status = 0
       THEN /\ ExploreReturn
            /\ UsbObs("app", TRUE)
       ELSE \E rres \in FResults :
               IF rres # "FR_OK" \/ Top.remaining = 0
               THEN /\ ExploreReturn
                    /\ UsbObs("app", TRUE)
               ELSE \E kind \in NameKinds, a \in Attribs :
                       /\ UsbObs("app", FALSE)
                       /\ stack' = SetTop([ReaddirConsumes(Top) EXCEPT !.fattrib = a])
                       /\ IF kind = "dot"
                          THEN UNCHANGED <<usb_pc, line_idx>>
                          ELSE IF LineIdxInc(line_idx) > 4
                               THEN /\ line_idx' = 0
                                    /\ usb_pc' = "ex_poll"
                               ELSE /\ line_idx' = LineIdxInc(line_idx)
                                    /\ usb_pc' = "ex_entry"
                       /\ UNCHANGED <<usbh_usr_application_state, ret>>
    /\ UNCHANGED <<connect_status, entry_state, mount_res, lun_called>>

\* the "Press Tamper Key to continue" polling loop of explore_disk
PollTamperContinue ==
    /\ usb_pc = "ex_poll"
    /\ \E key \in KeyLevels :
          IF PollWaits(key, "SET")
          THEN /\ UsbObs("app", FALSE)
               /\ UNCHANGED usb_pc
          ELSE /\ UsbObs("app", TRUE)
               /\ usb_pc' = "ex_entry"
    /\ UNCHANGED <<usbh_usr_application_state, connect_status, line_idx, stack,
                   entry_state, ret, mount_res, lun_called>>

\* (AM_DIR == fno.fattrib) && (1U == recu_level)
Descends_AnyLevel(f) == IsDirAttrib(f.fattrib)
Descends(f) == IsDirAttrib(f.fattrib) /\ f.level = 1

\* the entry is printed; a directory met at level 1 is explored with level 2
ExploreEntry ==
    /\ usb_pc = "ex_entry"
    /\ usb_pc' = "ex_loop"
    /\ IF Descends(Top)
       THEN \E ores \in FResults, n \in 0..MaxEntries :
               IF ores = "FR_OK"
               THEN stack' = Append(stack, Frame(2, n))
               ELSE UNCHANGED stack
       ELSE UNCHANGED stack
    /\ UsbStep("app", FALSE, ExploreCall("entry", Top.level, Top.fattrib,
                                         IF Descends(Top) THEN 2 ELSE 0))
    /\ UNCHANGED <<usbh_usr_application_state, connect_status, line_idx,
                   entry_state, ret, mount_res, lun_called>>

\* case USBH_USR_FS_WRITEFILE, up to the Wakeup polling loop
MscAppWritefile ==
    /\ CallEntry
    /\ usbh_usr_application_state = "USBH_USR_FS_WRITEFILE"
    /\ usb_pc' = "wf_poll"
    /\ mount_res' = "none"
    /\ lun_called' = FALSE
    /\ UsbObs("app", FALSE)
    /\ UNCHANGED <<usbh_usr_application_state, connect_status, line_idx, stack, ret>>

\* the Wakeup polling loop, then the file is written, read back and compared
\* (every outcome of the file operations ends the same way) and the demo ends
PollWakeupWritefile ==
    /\ usb_pc = "wf_poll"
    /\ \E key \in KeyLevels :
          IF PollWaits(key, "RESET")
          THEN /\ UsbObs("app", FALSE)
               /\ UNCHANGED <<usbh_usr_application_state, usb_pc, ret, mount_res>>
          ELSE /\ UsbObs("app", TRUE)
               /\ \E mres \in FResults : mount_res' = mres
               /\ usbh_usr_application_state' = "USBH_USR_FS_DEMOEND"
               /\ ret' = 0
               /\ usb_pc' = "idle"
    /\ UNCHANGED <<connect_status, line_idx, stack, entry_state, lun_called>>

\* case USBH_USR_FS_DEMOEND
MscAppDemoend ==
    /\ CallEntry
    /\ usbh_usr_application_state = "USBH_USR_FS_DEMOEND"
    /\ ret' = 0
    /\ mount_res' = "none"
    /\ lun_called' = FALSE
    /\ UsbObs("app", FALSE)
    /\ UNCHANGED <<usbh_usr_application_state, usb_pc, connect_status, line_idx, stack>>

UsbNext ==
    \/ MscAppInit
    \/ MscAppReadlist
    \/ PollTamperReadlist
    \/ ExploreReaddir
    \/ PollTamperContinue
    \/ ExploreEntry
    \/ MscAppWritefile
    \/ PollWakeupWritefile
    \/ MscAppDemoend
    \/ usbh_user_deinit
    \/ DeviceDisconnect
    \/ DeviceConnect

----------------------------------------------------------------------------
(* gd32h7xx_it.c *)

\* the event is in the log
Has(t, ev) == \E i \in DOMAIN t : t[i] = ev

\* what every step of this part leaves alone
IrqFrame == UNCHANGED <<usbVars, netVars, delayVars>>

FaultHandlers == {"NMI_Handler", "HardFault_Handler", "MemManage_Handler", "BusFault_Handler",
                  "UsageFault_Handler", "DebugMon_Handler", "FPU_IRQHandler"}

\* the handler that is running: the innermost active one
Running(n) == irq_stack # <<>> /\ irq_stack[Len(irq_stack)] = n /\ fault = "none"

IsrLog(n, ev) == [isr[n] EXCEPT !.trace = Append(@, ev)]

\* the DMA of ENETn has received a frame: RS and the summary NI are raised
FrameReceived(n) ==
    /\ n \in use_enet
    /\ dma_rs' = [dma_rs EXCEPT ![n] = TRUE]
    /\ dma_ni' = [dma_ni EXCEPT ![n] = TRUE]
    /\ isr' = [isr EXCEPT ![n].raced = @ \/ isr[n].pc \in {"give", "clear_rs"}]
    /\ UNCHANGED <<use_enet, irq_stack, sem_given, fault>>
    /\ IrqFrame

\* another normal interrupt source of ENETn (not a reception) raises NI only
OtherNormalInterrupt(n) ==
    /\ n \in use_enet
    /\ ~dma_ni[n]
    /\ dma_ni' = [dma_ni EXCEPT ![n] = TRUE]
    /\ UNCHANGED <<use_enet, dma_rs, isr, irq_stack, sem_given, fault>>
    /\ IrqFrame

\* SET == enet_interrupt_flag_get(ENETn, ENET_DMA_INT_FLAG_RS)
RsTest_Always(n) == TRUE
RsTest(n) == dma_rs[n]

\* entry of ENETn_IRQHandler: xHigherPriorityTaskWoken = pdFALSE and the test
\* of the receive-status flag
IrqEntry(n) ==
    /\ n \in use_enet
    /\ fault = "none"
    /\ isr[n].pc = "idle"
    /\ dma_ni[n]
    /\ isr' = [isr EXCEPT ![n] = [pc |-> IF RsTest(n) THEN "give" ELSE "clear_rs",
                                 rs_seen |-> dma_rs[n], woken |-> FALSE,
                                 trace |-> <<>>, raced |-> FALSE, done |-> FALSE]]
    /\ irq_stack' = Append(irq_stack, n)
    /\ UNCHANGED <<use_enet, dma_rs, dma_ni, sem_given, fault>>
    /\ IrqFrame

\* xSemaphoreGiveFromISR(g_rx_semaphore, &xHigherPriorityTaskWoken): a token
\* is put unless one is there already; only a successful give can report a
\* higher-priority task woken
IrqGive(n) ==
    /\ Running(n)
    /\ isr[n].pc = "give"
    /\ sem_given' = TRUE
    /\ \E w \in (IF sem_given THEN {FALSE} ELSE BOOLEAN) :
          isr' = [isr EXCEPT ![n] = [IsrLog(n, "give") EXCEPT !.pc = "clear_rs", !.woken = w]]
    /\ UNCHANGED <<use_enet, dma_rs, dma_ni, irq_stack, fault>>
    /\ IrqFrame

\* enet_interrupt_flag_clear(ENETn, ENET_DMA_INT_FLAG_RS_CLR)
IrqClearRS_IfSeen(n) ==
    /\ Running(n)
    /\ isr[n].pc = "clear_rs"
    /\ IF isr[n].rs_seen
       THEN /\ dma_rs' = [dma_rs EXCEPT ![n] = FALSE]
            /\ isr' = [isr EXCEPT ![n] = [IsrLog(n, "clear_rs") EXCEPT !.pc = "clear_ni"]]
       ELSE /\ isr' = [isr EXCEPT ![n].pc = "clear_ni"]
            /\ UNCHANGED dma_rs
    /\ UNCHANGED <<use_enet, dma_ni, irq_stack, sem_given, fault>>
    /\ IrqFrame

IrqClearRS(n) ==
    /\ Running(n)
    /\ isr[n].pc = "clear_rs"
    /\ dma_rs' = [dma_rs EXCEPT ![n] = FALSE]
    /\ isr' = [isr EXCEPT ![n] = [IsrLog(n, "clear_rs") EXCEPT !.pc = "clear_ni"]]
    /\ UNCHANGED <<use_enet, dma_ni, irq_stack, sem_given, fault>>
    /\ IrqFrame

\* enet_interrupt_flag_clear(ENETn, ENET_DMA_INT_FLAG_NI_CLR)
IrqClearNI(n) ==
    /\ Running(n)
    /\ isr[n].pc = "clear_ni"
    /\ dma_ni' = [dma_ni EXCEPT ![n] = FALSE]
    /\ isr' = [isr EXCEPT ![n] = [IsrLog(n, "clear_ni") EXCEPT !.pc = "switch"]]
    /\ UNCHANGED <<use_enet, dma_rs, irq_stack, sem_given, fault>>
    /\ IrqFrame

\* if(pdFALSE != xHigherPriorityTaskWoken) portEND_SWITCHING_ISR(...); return
IrqExit(n) ==
    /\ Running(n)
    /\ isr[n].pc = "switch"
    /\ isr' = [isr EXCEPT ![n] = [(IF isr[n].woken THEN IsrLog(n, "switch") ELSE isr[n])
                                    EXCEPT !.pc = "idle", !.done = TRUE]]
    /\ irq_stack' = SubSeq(irq_stack, 1, Len(irq_stack) - 1)
    /\ UNCHANGED <<use_enet, dma_rs, dma_ni, sem_given, fault>>
    /\ IrqFrame

\* the LwIP receive task takes the semaphore
RxTaskTake ==
    /\ fault = "none"
    /\ irq_stack = <<>>
    /\ sem_given
    /\ sem_given' = FALSE
    /\ UNCHANGED <<use_enet, dma_rs, dma_ni, isr, irq_stack, fault>>
    /\ IrqFrame

\* an exception is taken and its stub is entered
FaultEnter(h) ==
    /\ fault = "none"
    /\ fault' = h
    /\ UNCHANGED <<use_enet, dma_rs, dma_ni, isr, irq_stack, sem_given>>
    /\ IrqFrame

\* while(1) { } of the stub
FaultLoop_Returns ==
    /\ fault # "none"
    /\ fault' = "none"
    /\ UNCHANGED <<use_enet, dma_rs, dma_ni, isr, irq_stack, sem_given>>
    /\ IrqFrame

FaultLoop ==
    /\ fault # "none"
    /\ UNCHANGED irqVars
    /\ IrqFrame

IrqNext ==
    \/ \E n \in {0, 1} : FrameReceived(n)
    \/ \E n \in {0, 1} : OtherNormalInterrupt(n)
    \/ \E n \in {0, 1} : IrqEntry(n)
    \/ \E n \in {0, 1} : IrqGive(n)
    \/ \E n \in {0, 1} : IrqClearRS(n)
    \/ \E n \in {0, 1} : IrqClearNI(n)
    \/ \E n \in {0, 1} : IrqExit(n)
    \/ RxTaskTake
    \/ \E h \in FaultHandlers : FaultEnter(h)
    \/ FaultLoop

----------------------------------------------------------------------------
(* main.c and netconf.c *)

\* what every step of these parts leaves alone
NetFrame == UNCHANGED <<usbVars, irqVars, delayVars>>

\* uint32_t arithmetic on <<high half, low half>>
Half == 2^16

U32Of(n) == <<n \div Half, n % Half>>

U32Add(a, b) ==
    LET lo == a[2] + b[2]
        hi == a[1] + b[1] + (lo \div Half)
    IN  <<hi % Half, lo % Half>>

U32Sub(a, b) ==
    LET lo == a[2] - b[2]
        hi == a[1] - b[1] - (IF lo < 0 THEN 1 ELSE 0)
    IN  <<(hi + Half) % Half, (lo + Half) % Half>>

U32Lt(a, b) == a[1] < b[1] \/ (a[1] = b[1] /\ a[2] < b[2])

U32Ge(a, b) == ~U32Lt(a, b)

SYSTEMTICK_PERIOD_MS == 10

DHCP_TRIES_MAX_TIMES == 3

\* periods of the lwIP timers, in ms
TCP_TMR_INTERVAL == 250

ARP_TMR_INTERVAL == 1000

DHCP_FINE_TIMER_MSECS == 500

DHCP_COARSE_TIMER_MSECS == 60000

\* g_localtime after k runs of time_update
TimeAfter(t, k) == U32Add(t, U32Of(k * SYSTEMTICK_PERIOD_MS))

\* the start-up calls of main, in the order of the text
InitOrder == <<"mpu_config", "cache_enable", "gd_eval_com_init", "gd_eval_key_init",
               "enet_system_setup", "lwip_stack_init">>

LoopPcs == {"rx0", "rx1", "timers"}

Netifs == {0, 1}

NoNetif == [ip |-> "zero", dhcp |-> "null", tries |-> 0, added |-> FALSE]

LibCalls == {"dhcp_start", "dhcp_stop", "netif_set_addr"} \X Netifs

Called(c, name, n) == [c EXCEPT ![<<name, n>>] = @ + 1]

\* lwip_stack_init: netif_add with address 0 under USE_DHCP and with the
\* board's static address otherwise; the DHCP client data start as NULL
StackInit(nf) ==
    [n \in Netifs |->
        IF n \in net_cfg.enet
        THEN [ip |-> IF net_cfg.USE_DHCP THEN "zero" ELSE "static",
              dhcp |-> "null", tries |-> 0, added |-> TRUE]
        ELSE nf[n]]

\* one start-up call of main
MainInit ==
    /\ main_pc = "init"
    /\ ~net_halted
    /\ LET call == InitOrder[Len(init_log) + 1] IN
          /\ init_log' = Append(init_log, call)
          /\ netif' = IF call = "lwip_stack_init" THEN StackInit(netif) ELSE netif
          /\ main_pc' = IF Len(init_log) + 1 = Len(InitOrder) THEN "rx0" ELSE "init"
    /\ UNCHANGED <<net_cfg, loop_trace, rx_size, g_localtime, net_bursts, tcpcurtime, arpcurtime,
                   finecurtime, coarsecurtime, dhcp_addr_status, ip_address, lib_calls,
                   dhcp_obs, tc_obs, net_halted, tmr_obs>>
    /\ NetFrame

\* the periodic timers of lwip_timeouts_check, in the order of its text
TimerNames == <<"tcp", "arp", "fine", "coarse">>

Interval(t) == CASE t = "tcp" -> TCP_TMR_INTERVAL [] t = "arp" -> ARP_TMR_INTERVAL
                 [] t = "fine" -> DHCP_FINE_TIMER_MSECS
                 [] t = "coarse" -> DHCP_COARSE_TIMER_MSECS

\* the time in ms that has passed since a timer ran is followed up to the
\* longest interval
SinceCap == DHCP_COARSE_TIMER_MSECS

\* the time since a timer ran, k runs of time_update later
SinceAfter(since, k) ==
    IF k * SYSTEMTICK_PERIOD_MS >= SinceCap - since THEN SinceCap
    ELSE since + k * SYSTEMTICK_PERIOD_MS

\* how many runs of time_update a burst holds: one, or as many as a period
\* of the DHCP fine timer
TickBursts == {1, DHCP_FINE_TIMER_MSECS \div SYSTEMTICK_PERIOD_MS}

\* time_update, run k times in a row by the tick interrupt that
\* enet_system_setup has started
SysTicks(k) ==
    /\ Has(init_log, "enet_system_setup")
    /\ ~net_halted
    /\ net_bursts < MaxBursts
    /\ net_bursts' = net_bursts + 1
    /\ g_localtime' = TimeAfter(g_localtime, k)
    /\ tmr_obs' = [tmr_obs EXCEPT
                      !.since = [t \in DOMAIN tmr_obs.since |-> SinceAfter(tmr_obs.since[t], k)]]
    /\ UNCHANGED <<net_cfg, main_pc, init_log, loop_trace, rx_size, tcpcurtime, arpcurtime,
                   finecurtime, coarsecurtime, dhcp_addr_status, ip_address, netif, lib_calls,
                   dhcp_obs, tc_obs, net_halted>>
    /\ NetFrame

\* the DHCP client of an interface is bound: the stack sets the netif address
Bound(nf, n) == [nf EXCEPT ![n].ip = "dhcp"]

CanBind(n) == netif[n].dhcp = "running" /\ netif[n].ip = "zero"

\* if(enet_rxframe_size_get(ENETn)) lwip_frame_recvN();
FrameAvailable_Always(size) == TRUE
FrameAvailable(size) == size # 0

Polled(n) == n \in net_cfg.enet /\ ~net_cfg.USE_ENET_INTERRUPT

RxEvent(n) == IF n = 0 THEN "lwip_frame_recv0" ELSE "lwip_frame_recv1"

RxPc(n) == IF n = 0 THEN "rx0" ELSE "rx1"

\* the superloop's reception step for ENETn; a frame handed to the stack may
\* be the DHCP server's answer that binds the client
MainRx(n) ==
    /\ main_pc = RxPc(n)
    /\ ~net_halted
    /\ main_pc' = IF n = 0 THEN "rx1" ELSE "timers"
    /\ LET start == IF n = 0 THEN <<>> ELSE loop_trace IN
       IF Polled(n)
       THEN \E size \in {0, 64} :
               /\ rx_size' = [rx_size EXCEPT ![n] = size]
               /\ IF FrameAvailable(size)
                  THEN /\ loop_trace' = Append(start, RxEvent(n))
                       /\ \E bind \in (IF CanBind(n) THEN BOOLEAN ELSE {FALSE}) :
                             netif' = IF bind THEN Bound(netif, n) ELSE netif
                  ELSE /\ loop_trace' = start
                       /\ UNCHANGED netif
       ELSE /\ loop_trace' = start
            /\ UNCHANGED <<rx_size, netif>>
    /\ UNCHANGED <<net_cfg, init_log, g_localtime, net_bursts, tcpcurtime, arpcurtime,
                   finecurtime, coarsecurtime, dhcp_addr_status, ip_address, lib_calls,
                   dhcp_obs, tc_obs, net_halted, tmr_obs>>
    /\ NetFrame

\* with USE_ENET_INTERRUPT the frames reach the stack from the interrupt
EnetInterruptRx(n) ==
    /\ net_cfg.USE_ENET_INTERRUPT
    /\ main_pc \in LoopPcs
    /\ ~net_halted
    /\ CanBind(n)
    /\ netif' = Bound(netif, n)
    /\ UNCHANGED <<net_cfg, main_pc, init_log, loop_trace, rx_size, g_localtime, net_bursts,
                   tcpcurtime, arpcurtime, finecurtime, coarsecurtime, dhcp_addr_status,
                   ip_address, lib_calls, dhcp_obs, tc_obs, net_halted, tmr_obs>>
    /\ NetFrame

\* ---- lwip_dhcp_address_get

\* the state lwip_dhcp_address_get works on, with the observations of the call
DhcpState ==
    [status |-> dhcp_addr_status, netif |-> netif, ip_address |-> ip_address,
     calls |-> lib_calls, trace |-> <<dhcp_addr_status>>, fail |-> <<>>, ub |-> FALSE,
     halted |-> FALSE]

SetStatus(s, st) == [s EXCEPT !.status = st, !.trace = Append(@, st)]

\* dhcp_stop: the client, if there is one, is switched off
Stopped(d) == IF d = "running" THEN "stopped" ELSE d

\* the DHCP timeout branch: DHCP_ADDR_FAIL, dhcp_stop, the static address
DhcpFail(n, s) ==
    [SetStatus(s, "DHCP_ADDR_FAIL") EXCEPT
        !.netif[n].dhcp = Stopped(@),
        !.netif[n].ip = "static",
        !.calls = Called(Called(@, "dhcp_stop", n), "netif_set_addr", n),
        !.fail = Append(@, [n |-> n, ip |-> s.netif[n].ip, client |-> s.netif[n].dhcp,
                            tries |-> s.netif[n].tries, from |-> s.status])]

\* dhcp_client->tries > DHCP_TRIES_MAX_TIMES
TriesExceeded(tries) == tries > DHCP_TRIES_MAX_TIMES

\* switch(dhcp_addr_status) for g_mynetifN. Reading tries through a NULL
\* netif_dhcp_data() is undefined: ub.fault stops the program, otherwise
\* ub.val is the value read.
DhcpSwitch(n, s, ub) ==
    IF s.halted THEN s
    ELSE CASE s.status = "DHCP_ADDR_NONE" ->
                 [SetStatus(s, "DHCP_ADDR_BEGIN") EXCEPT
                     !.netif[n].dhcp = "running",
                     !.netif[n].tries = 0,
                     !.calls = Called(@, "dhcp_start", n)]
           [] s.status = "DHCP_ADDR_BEGIN" ->
                 LET s1 == [s EXCEPT !.ip_address = s.netif[n].ip] IN
                 IF s1.ip_address # "zero"
                 THEN SetStatus(s1, "DHCP_ADDR_GOT")
                 ELSE IF s1.netif[n].dhcp = "null"
                      THEN IF ub.fault
                           THEN [s1 EXCEPT !.ub = TRUE, !.halted = TRUE]
                           ELSE IF TriesExceeded(ub.val)
                                THEN DhcpFail(n, [s1 EXCEPT !.ub = TRUE])
                                ELSE [s1 EXCEPT !.ub = TRUE]
                      ELSE IF TriesExceeded(s1.netif[n].tries)
                           THEN DhcpFail(n, s1)
                           ELSE s1
           [] OTHER -> s

\* the outcomes of the undefined read
UbOutcomes == [fault : BOOLEAN, val : {0, MaxTries}]

\* lwip_dhcp_address_get: the switch for g_mynetif0, then the one for g_mynetif1
DhcpAddressGet(s, ub) ==
    LET s0 == IF 0 \in net_cfg.enet THEN DhcpSwitch(0, s, ub) ELSE s
    IN  IF 1 \in net_cfg.enet THEN DhcpSwitch(1, s0, ub) ELSE s0

\* dhcp_fine_tmr / sys_check_timeouts: a running client that has no answer
\* may have sent its request once more. r is the set of clients that did
DhcpRetry(nf, r) ==
    [n \in Netifs |->
        IF n \in r /\ nf[n].dhcp = "running" /\ nf[n].ip = "zero" /\ nf[n].tries < MaxTries
        THEN [nf[n] EXCEPT !.tries = @ + 1]
        ELSE nf[n]]

\* ---- lwip_timeouts_check

\* curtime - last >= interval, in uint32_t
TimerDue(curtime, last, interval) == U32Ge(U32Sub(curtime, last), U32Of(interval))

\* (DHCP_ADDR_GOT != dhcp_addr_status) && (DHCP_ADDR_FAIL != dhcp_addr_status)
DhcpPending_Always(st) == TRUE
DhcpPending(st) == st # "DHCP_ADDR_GOT" /\ st # "DHCP_ADDR_FAIL"

\* the new state of netconf.c is written back
DhcpCommit(s) ==
    /\ dhcp_addr_status' = s.status
    /\ netif' = s.netif
    /\ ip_address' = s.ip_address
    /\ lib_calls' = s.calls
    /\ dhcp_obs' = [trace |-> s.trace, fail |-> s.fail, ub |-> s.ub]
    /\ net_halted' = s.halted

lwip_timeouts_check(curtime, r, ub) ==
    LET tcp    == TimerDue(curtime, tcpcurtime, TCP_TMR_INTERVAL)
        arp    == TimerDue(curtime, arpcurtime, ARP_TMR_INTERVAL)
        fine   == net_cfg.USE_DHCP /\ TimerDue(curtime, finecurtime, DHCP_FINE_TIMER_MSECS)
        coarse == net_cfg.USE_DHCP /\ TimerDue(curtime, coarsecurtime, DHCP_COARSE_TIMER_MSECS)
        poll   == fine /\ DhcpPending(dhcp_addr_status)
        tmr    == [DhcpState EXCEPT !.netif = IF fine THEN DhcpRetry(netif, r) ELSE netif]
        s      == IF poll THEN DhcpAddressGet(tmr, ub) ELSE tmr
    IN  /\ tcpcurtime' = IF tcp THEN curtime ELSE tcpcurtime
        /\ arpcurtime' = IF arp THEN curtime ELSE arpcurtime
        /\ finecurtime' = IF fine THEN curtime ELSE finecurtime
        /\ coarsecurtime' = IF coarse /\ ~s.halted THEN curtime ELSE coarsecurtime
        /\ tc_obs' = [fired |-> {t \in {"tcp", "arp", "fine", "coarse"} :
                                    \/ t = "tcp" /\ tcp
                                    \/ t = "arp" /\ arp
                                    \/ t = "fine" /\ fine
                                    \/ t = "coarse" /\ coarse /\ ~s.halted},
                      dhcp_get |-> poll, status |-> dhcp_addr_status, calls |-> 1]
        /\ LET ran(t) == CASE t = "tcp" -> tcp [] t = "arp" -> arp [] t = "fine" -> fine
                            [] t = "coarse" -> coarse /\ ~s.halted
           IN  tmr_obs' = [since   |-> [t \in DOMAIN tmr_obs.since |->
                                           IF ran(t) THEN 0 ELSE tmr_obs.since[t]],
                           curtime |-> curtime,
                           prev    |-> [tcp |-> tcpcurtime, arp |-> arpcurtime,
                                        fine |-> finecurtime, coarse |-> coarsecurtime],
                           ran     |-> SelectSeq(TimerNames, ran),
                           gap     |-> tmr_obs.since,
                           calls   |-> 1]
        /\ IF poll
           THEN DhcpCommit(s)
           ELSE /\ netif' = s.netif
                /\ UNCHANGED <<dhcp_addr_status, ip_address, lib_calls, dhcp_obs, net_halted>>

\* the superloop's timer step: sys_check_timeouts and lwip_dhcp_address_get
\* under TIMEOUT_CHECK_USE_LWIP, lwip_timeouts_check(g_localtime) otherwise
MainTimers ==
    /\ main_pc = "timers"
    /\ ~net_halted
    /\ main_pc' = "rx0"
    /\ loop_trace' = Append(loop_trace, "timers")
    /\ \E r \in SUBSET net_cfg.enet, ub \in UbOutcomes :
          IF net_cfg.TIMEOUT_CHECK_USE_LWIP
          THEN /\ IF net_cfg.USE_DHCP
                  THEN DhcpCommit(DhcpAddressGet([DhcpState EXCEPT !.netif = DhcpRetry(netif, r)], ub))
                  ELSE UNCHANGED <<dhcp_addr_status, ip_address, netif, lib_calls, dhcp_obs,
                                   net_halted>>
               /\ UNCHANGED <<tcpcurtime, arpcurtime, finecurtime, coarsecurtime, tc_obs,
                               tmr_obs>>
          ELSE lwip_timeouts_check(g_localtime, r, ub)
    /\ UNCHANGED <<net_cfg, init_log, rx_size, g_localtime, net_bursts>>
    /\ NetFrame

NetNext ==
    \/ MainInit
    \/ \E k \in TickBursts : SysTicks(k)
    \/ \E n \in Netifs : MainRx(n)
    \/ \E n \in Netifs : EnetInterruptRx(n)
    \/ MainTimers

\* ---- delay_10ms

DelayFrame == UNCHANGED <<usbVars, irqVars, net_cfg, main_pc, init_log, loop_trace, rx_size,
                          net_bursts, tcpcurtime, arpcurtime, finecurtime, coarsecurtime,
                          dhcp_addr_status, ip_address, netif, lib_calls, dhcp_obs, tc_obs,
                          net_halted, tmr_obs>>

\* g_timedelay = g_localtime + ncount;
DelayCall(ncount) ==
    /\ delay_pc = "idle"
    /\ g_timedelay' = U32Add(g_localtime, U32Of(ncount))
    /\ delay_ncount' = ncount
    /\ delay_ticks' = 0
    /\ delay_pc' = "wait"
    /\ UNCHANGED g_localtime
    /\ DelayFrame

\* while(g_timedelay > g_localtime) { }
DelayPoll ==
    /\ delay_pc = "wait"
    /\ delay_pc' = IF U32Lt(g_localtime, g_timedelay) THEN "wait" ELSE "done"
    /\ UNCHANGED <<g_localtime, g_timedelay, delay_ncount, delay_ticks>>
    /\ DelayFrame

\* g_localtime += SYSTEMTICK_PERIOD_MS;
time_update ==
    /\ delay_pc = "wait"
    /\ delay_ticks < MaxDelayTicks
    /\ g_localtime' = TimeAfter(g_localtime, 1)
    /\ delay_ticks' = delay_ticks + 1
    /\ UNCHANGED <<g_timedelay, delay_pc, delay_ncount>>
    /\ DelayFrame

DelayNext ==
    \/ \E ncount \in 0..MaxNcount : DelayCall(ncount)
    \/ DelayPoll
    \/ time_update

----------------------------------------------------------------------------
(* Initial states and specifications *)

\* usbh_usr.c before the first call
UsbIdle ==
    /\ usbh_usr_application_state = "USBH_USR_FS_INIT"
    /\ usb_pc = "idle"
    /\ connect_status = 1
    /\ line_idx = 0
    /\ stack = <<>>
    /\ entry_state = "USBH_USR_FS_INIT"
    /\ ret = 0
    /\ mount_res = "none"
    /\ lun_called = FALSE
    /\ usb_op = "env"
    /\ loop_exit = FALSE
    /\ explore_obs = NoCall

\* gd32h7xx_it.c with no interrupt pending; enets are the n with USE_ENETn
IrqIdle(enets) ==
    /\ use_enet = enets
    /\ dma_rs = [n \in {0, 1} |-> FALSE]
    /\ dma_ni = [n \in {0, 1} |-> FALSE]
    /\ isr = [n \in {0, 1} |-> [pc |-> "idle", rs_seen |-> FALSE, woken |-> FALSE,
                                 trace |-> <<>>, raced |-> FALSE, done |-> FALSE]]
    /\ irq_stack = <<>>
    /\ sem_given = FALSE
    /\ fault = "none"

\* main.c and netconf.c before main runs; cfg is the build configuration and
\* t the value of g_localtime
NetIdle(cfg, t) ==
    /\ net_cfg = cfg
    /\ main_pc = "init"
    /\ init_log = <<>>
    /\ loop_trace = <<>>
    /\ rx_size = [n \in Netifs |-> 0]
    /\ g_localtime = t
    /\ net_bursts = 0
    /\ tcpcurtime = U32Of(0)
    /\ arpcurtime = U32Of(0)
    /\ finecurtime = U32Of(0)
    /\ coarsecurtime = U32Of(0)
    /\ dhcp_addr_status = "DHCP_ADDR_NONE"
    /\ ip_address = "zero"
    /\ netif = [n \in Netifs |-> NoNetif]
    /\ lib_calls = [c \in LibCalls |-> 0]
    /\ dhcp_obs = [trace |-> <<>>, fail |-> <<>>, ub |-> FALSE]
    /\ tc_obs = [fired |-> {}, dhcp_get |-> FALSE, status |-> "DHCP_ADDR_NONE", calls |-> 0]
    /\ net_halted = FALSE
    /\ tmr_obs = [since   |-> [x \in {"tcp", "arp", "fine", "coarse"} |-> 0],
                  curtime |-> U32Of(0),
                  prev    |-> [x \in {"tcp", "arp", "fine", "coarse"} |-> U32Of(0)],
                  ran     |-> <<>>,
                  gap     |-> [x \in {"tcp", "arp", "fine", "coarse"} |-> 0],
                  calls   |-> 0]

DelayIdle ==
    /\ g_timedelay = U32Of(0)
    /\ delay_pc = "idle"
    /\ delay_ncount = 0
    /\ delay_ticks = 0

DefaultCfg == [enet |-> {0}, USE_ENET_INTERRUPT |-> FALSE, TIMEOUT_CHECK_USE_LWIP |-> FALSE,
               USE_DHCP |-> TRUE]

UsbInit == UsbIdle /\ IrqIdle({0, 1}) /\ NetIdle(DefaultCfg, U32Of(0)) /\ DelayIdle

SpecUsb == UsbInit /\ [][UsbNext]_vars

\* Inside a call the processor keeps executing, and every polling loop is
\* eventually offered a key level or a connect_status that ends it.
UsbInCallProgress ==
    \/ (PollTamperReadlist /\ loop_exit')
    \/ ExploreReaddir
    \/ (PollTamperContinue /\ loop_exit')
    \/ ExploreEntry
    \/ (PollWakeupWritefile /\ loop_exit')

SpecUsbFair == UsbInit /\ [][UsbNext]_vars /\ WF_vars(UsbInCallProgress)

\* the interrupt file is built with USE_ENET0, USE_ENET1 or both
IrqInit ==
    /\ \E enets \in {{0}, {1}, {0, 1}} : IrqIdle(enets)
    /\ UsbIdle /\ NetIdle(DefaultCfg, U32Of(0)) /\ DelayIdle

SpecIrq == IrqInit /\ [][IrqNext]_vars

\* the builds of the raw Ethernet demo: USE_ENET0, USE_ENET1 or both, and
\* each of the three switches of main.h on or off
NetCfgs == [enet : {{0}, {1}, {0, 1}}, USE_ENET_INTERRUPT : BOOLEAN,
            TIMEOUT_CHECK_USE_LWIP : BOOLEAN, USE_DHCP : BOOLEAN]

NetInit ==
    /\ \E cfg \in NetCfgs : NetIdle(cfg, U32Of(0))
    /\ UsbIdle /\ IrqIdle({0, 1}) /\ DelayIdle

SpecNet == NetInit /\ [][NetNext]_vars

\* the builds whose superloop calls lwip_timeouts_check and leaves the
\* reception to the interrupt
TimerCfgs == {cfg \in NetCfgs : ~cfg.TIMEOUT_CHECK_USE_LWIP /\ cfg.USE_ENET_INTERRUPT}

\* the runs of time_update that take g_localtime from 0 to 2^31 - 8: twice as
\* many take it to 16 ms before it wraps
HalfRangeTicks == (Half * (Half \div 2 - 1) + (Half - 8)) \div SYSTEMTICK_PERIOD_MS

\* tick bursts as long as the shortest and the longest interval, and the one above
TimerTickBursts == {TCP_TMR_INTERVAL \div SYSTEMTICK_PERIOD_MS,
                    DHCP_COARSE_TIMER_MSECS \div SYSTEMTICK_PERIOD_MS,
                    HalfRangeTicks}

TimerInit ==
    /\ \E cfg \in TimerCfgs : NetIdle(cfg, U32Of(0))
    /\ UsbIdle /\ IrqIdle({0, 1}) /\ DelayIdle

TimerNext ==
    \/ MainInit
    \/ \E k \in TimerTickBursts : SysTicks(k)
    \/ \E n \in Netifs : MainRx(n)
    \/ \E n \in Netifs : EnetInterruptRx(n)
    \/ MainTimers

SpecTimer == TimerInit /\ [][TimerNext]_vars

\* values of g_localtime at a call of delay_10ms: multiples of the tick
\* period, and values that running on from them reaches near the wrap
DelayStarts == {U32Of(0), U32Of(10), U32Of(1000), <<Half - 1, Half - 16>>, <<Half - 1, Half - 6>>}

DelayInit ==
    /\ \E t \in DelayStarts : NetIdle(DefaultCfg, t)
    /\ UsbIdle /\ IrqIdle({0, 1}) /\ DelayIdle

SpecDelay == DelayInit /\ [][DelayNext]_vars

----------------------------------------------------------------------------
(* Claims *)

\* the last step was a return of usbh_usr_msc_application
UsbReturned == usb_pc = "idle" /\ usb_op = "app"

\* C1: usbh_usr_application_state only moves one place forward along
\* FS_INIT -> FS_READLIST -> FS_WRITEFILE -> FS_DEMOEND, by a step of
\* usbh_usr_msc_application and at most once per call; the only other change
\* is usbh_user_deinit putting it back to FS_INIT.
C1_FixedOrder ==
    [][ /\ (usbh_usr_application_state' # usbh_usr_application_state) =>
             \/ /\ usb_op' = "deinit"
                /\ usbh_usr_application_state' = "USBH_USR_FS_INIT"
             \/ /\ usb_op' = "app"
                /\ Rank(usbh_usr_application_state') = Rank(usbh_usr_application_state) + 1
        /\ (usb_op' = "app") =>
             Rank(usbh_usr_application_state') - Rank(entry_state') \in {0, 1}
      ]_vars

C1_Witness ==
    /\ UsbReturned
    /\ usbh_usr_application_state = "USBH_USR_FS_DEMOEND"
    /\ entry_state = "USBH_USR_FS_WRITEFILE"

\* C2: a call returns -1 exactly when it was entered in FS_INIT and f_mount
\* did not return FR_OK; then the state is still FS_INIT and
\* usbh_msc_lun_info_get was not called. Every other call returns 0.
C2_ReturnValue ==
    UsbReturned =>
        /\ ret \in {0, -1}
        /\ (ret = -1) <=> (entry_state = "USBH_USR_FS_INIT" /\ mount_res \notin {"none", "FR_OK"})
        /\ (ret = -1) => (usbh_usr_application_state = "USBH_USR_FS_INIT" /\ ~lun_called)

C2_Witness ==
    /\ UsbReturned
    /\ ret = -1
    /\ mount_res = "FR_DISK_ERR"
    /\ usbh_usr_application_state = "USBH_USR_FS_INIT"

\* C3: every call of usbh_usr_msc_application returns, given that each
\* polling loop is eventually offered a key level or a connect_status that
\* ends it and that directory listings are finite; and with connect_status 0
\* the next test of any polling loop or of the directory-read loop leaves it.
C3_Terminates ==
    /\ (usb_pc # "idle") ~> (usb_pc = "idle")
    /\ [][ ( /\ connect_status = 0
             /\ usb_pc \in {"rl_poll", "ex_poll", "wf_poll", "ex_loop"}
             /\ usb_op' = "app" ) => loop_exit' ]_vars

C3_Witness ==
    /\ loop_exit
    /\ connect_status = 0
    /\ usb_pc = "ex_entry"

\* what an invocation of ENETn_IRQHandler did, from its observations
Gives(t) == Cardinality({i \in DOMAIN t : t[i] = "give"})

PastGive(n) == isr[n].pc \in {"clear_rs", "clear_ni", "switch"} \/ isr[n].done

\* C4: an invocation of ENET0_IRQHandler / ENET1_IRQHandler gives
\* g_rx_semaphore exactly once if the RS flag was set when the handler tested
\* it on entry and not at all otherwise, and it requests a context switch only
\* if that give reported a higher-priority task woken.
C4_GiveIffRS ==
    \A n \in {0, 1} :
        /\ Gives(isr[n].trace) <= 1
        /\ PastGive(n) => Gives(isr[n].trace) = (IF isr[n].rs_seen THEN 1 ELSE 0)
        /\ isr[n].woken => Gives(isr[n].trace) = 1
        /\ Has(isr[n].trace, "switch") => isr[n].woken

C4_Witness ==
    \E n \in {0, 1} :
        /\ isr[n].done
        /\ isr[n].rs_seen
        /\ isr[n].trace = <<"give", "clear_rs", "clear_ni", "switch">>

\* the order of the handler's statements
StmtOrder(ev) == CASE ev = "give" -> 1 [] ev = "clear_rs" -> 2
                   [] ev = "clear_ni" -> 3 [] ev = "switch" -> 4

\* C5: every invocation of the Ethernet handler clears the RS and the NI
\* flag, whether or not RS was set, after the give and before the
\* context-switch request; a frame whose RS flag is raised after the test and
\* before the clear is cleared with no give for it.
C5_ClearsBoth ==
    /\ [](\A n \in {0, 1} :
            /\ isr[n].done => (Has(isr[n].trace, "clear_rs") /\ Has(isr[n].trace, "clear_ni"))
            /\ \A i, j \in DOMAIN isr[n].trace :
                  i < j => StmtOrder(isr[n].trace[i]) < StmtOrder(isr[n].trace[j])
            /\ (isr[n].done /\ isr[n].raced /\ ~isr[n].rs_seen) => Gives(isr[n].trace) = 0)
    /\ [][\A n \in {0, 1} :
            /\ (isr[n].pc = "clear_rs" /\ isr'[n].pc = "clear_ni") => ~dma_rs'[n]
            /\ (isr[n].pc = "clear_ni" /\ isr'[n].pc = "switch") => ~dma_ni'[n]]_vars

C5_Witness ==
    \E n \in {0, 1} :
        /\ isr[n].done
        /\ isr[n].raced
        /\ ~isr[n].rs_seen
        /\ isr[n].trace = <<"clear_rs", "clear_ni">>
        /\ ~dma_rs[n]

\* C6: once one of the fault/exception stubs is entered it is never left, and
\* no handler or task of the program takes a step any more.
C6_FaultNeverReturns ==
    [][fault # "none" =>
          /\ fault' = fault
          /\ UNCHANGED <<irq_stack, sem_given>>
          /\ \A n \in {0, 1} : isr'[n].pc = isr[n].pc /\ isr'[n].trace = isr[n].trace]_vars

C6_Witness ==
    /\ fault = "HardFault_Handler"
    /\ irq_stack # <<>>
    /\ dma_rs[0]

Last(t) == t[Len(t)]

\* the order of the superloop's steps
LoopOrder(ev) == CASE ev = "lwip_frame_recv0" -> 1 [] ev = "lwip_frame_recv1" -> 2
                   [] ev = "timers" -> 3

\* C7: main makes its start-up calls once each, in the order mpu_config,
\* cache_enable, USART and key init, enet_system_setup, lwip_stack_init,
\* before the first superloop step; the superloop is never left; in an
\* iteration a frame of ENETn is handed to lwip_frame_recvN only if
\* enet_rxframe_size_get(ENETn) was not 0, and the iteration ends with the
\* timer step.
C7_StartupThenSuperloop ==
    /\ [](/\ main_pc \in LoopPcs =>
               init_log = <<"mpu_config", "cache_enable", "gd_eval_com_init", "gd_eval_key_init",
                            "enet_system_setup", "lwip_stack_init">>
          /\ main_pc = "init" => loop_trace = <<>>
          /\ \A n \in Netifs : Has(loop_trace, RxEvent(n)) => rx_size[n] # 0
          /\ \A i, j \in DOMAIN loop_trace :
                i < j => LoopOrder(loop_trace[i]) < LoopOrder(loop_trace[j])
          /\ (main_pc = "rx0" /\ loop_trace # <<>>) => Last(loop_trace) = "timers")
    /\ [][(main_pc \in LoopPcs) => (main_pc' \in LoopPcs /\ init_log' = init_log)]_vars

C7_Witness ==
    /\ main_pc = "rx0"
    /\ loop_trace = <<"lwip_frame_recv0", "lwip_frame_recv1", "timers">>

DhcpTerminal == {"DHCP_ADDR_GOT", "DHCP_ADDR_FAIL"}

DhcpMoves == {<<"DHCP_ADDR_NONE", "DHCP_ADDR_BEGIN">>, <<"DHCP_ADDR_BEGIN", "DHCP_ADDR_GOT">>,
              <<"DHCP_ADDR_BEGIN", "DHCP_ADDR_FAIL">>}

\* C8: dhcp_addr_status only moves NONE -> BEGIN -> GOT or FAIL; once it is
\* GOT or FAIL no call changes it or calls dhcp_start, dhcp_stop or
\* netif_set_addr, and lwip_timeouts_check does not call
\* lwip_dhcp_address_get.
C8_DhcpStatusOrder ==
    /\ [](/\ \A i \in 1..(Len(dhcp_obs.trace) - 1) :
                <<dhcp_obs.trace[i], dhcp_obs.trace[i + 1]>> \in DhcpMoves
          /\ tc_obs.dhcp_get => tc_obs.status \notin DhcpTerminal)
    /\ [][/\ (dhcp_addr_status' # dhcp_addr_status) =>
                /\ dhcp_obs'.trace[1] = dhcp_addr_status
                /\ Last(dhcp_obs'.trace) = dhcp_addr_status'
          /\ (dhcp_addr_status \in DhcpTerminal) =>
                /\ dhcp_addr_status' = dhcp_addr_status
                /\ lib_calls' = lib_calls]_vars

C8_Witness ==
    /\ dhcp_addr_status = "DHCP_ADDR_GOT"
    /\ tc_obs.status = "DHCP_ADDR_GOT"
    /\ "fine" \in tc_obs.fired
    /\ ~tc_obs.dhcp_get

\* C9: DHCP_ADDR_FAIL is entered only from DHCP_ADDR_BEGIN, with the
\* interface address still 0 and the tries counter of the interface's DHCP
\* client above DHCP_TRIES_MAX_TIMES; dhcp_stop and netif_set_addr are then
\* called once. With DHCP_ADDR_GOT the static address is never applied.
C9_FailOnlyAfterTries ==
    /\ \A i \in DOMAIN dhcp_obs.fail :
          /\ dhcp_obs.fail[i].from = "DHCP_ADDR_BEGIN"
          /\ dhcp_obs.fail[i].ip = "zero"
          /\ dhcp_obs.fail[i].client = "running"
          /\ dhcp_obs.fail[i].tries > 3
    /\ \A n \in Netifs :
          /\ lib_calls[<<"dhcp_stop", n>>] <= 1
          /\ lib_calls[<<"netif_set_addr", n>>] = lib_calls[<<"dhcp_stop", n>>]
    /\ (dhcp_addr_status = "DHCP_ADDR_FAIL") <=>
          (\E n \in Netifs : lib_calls[<<"netif_set_addr", n>>] = 1)
    /\ (dhcp_addr_status = "DHCP_ADDR_GOT") =>
          \A n \in Netifs : netif[n].ip # "static"

\* C10: delay_10ms(ncount) does not return before time_update has run
\* ncount times since the call.
C10_WaitsNcountTicks ==
    delay_pc = "done" => delay_ticks >= delay_ncount

\* the timers the build holds: the DHCP timers only under USE_DHCP
Compiled(t) == t \in {"tcp", "arp"} \/ net_cfg.USE_DHCP

Stamp(t) == CASE t = "tcp" -> tcpcurtime [] t = "arp" -> arpcurtime
              [] t = "fine" -> finecurtime [] t = "coarse" -> coarsecurtime

\* cur lies in the iv ms that start at last, counted modulo 2^32
InWindow(cur, last, iv) ==
    LET e == U32Add(last, U32Of(iv))
    IN  IF U32Ge(e, last) THEN U32Ge(cur, last) /\ U32Lt(cur, e)
        ELSE U32Ge(cur, last) \/ U32Lt(cur, e)

\* C11: in a call of lwip_timeouts_check each timer the build holds runs
\* exactly when curtime is at least its interval past its time stamp, modulo
\* 2^32, and at most once; the time stamp is then curtime and is otherwise
\* left alone; between two runs of a timer at least its interval has passed.
C11_TimerDispatch ==
    \A t \in {"tcp", "arp", "fine", "coarse"} :
        /\ Has(tmr_obs.ran, t) <=>
               /\ tmr_obs.calls > 0
               /\ Compiled(t)
               /\ ~InWindow(tmr_obs.curtime, tmr_obs.prev[t], Interval(t))
        /\ Cardinality({i \in DOMAIN tmr_obs.ran : tmr_obs.ran[i] = t}) <= 1
        /\ Stamp(t) = IF Has(tmr_obs.ran, t) THEN tmr_obs.curtime ELSE tmr_obs.prev[t]
        /\ Has(tmr_obs.ran, t) => tmr_obs.gap[t] >= Interval(t)

\* C12: explore_disk is called with recu_level 1 by case USBH_USR_FS_READLIST
\* and with recu_level 2 by an invocation of level 1 only; an invocation of
\* level 2 calls it for no entry, directory or not; at most two invocations
\* are active, the outer of level 1 and the inner of level 2.
C12_DepthAtMostTwo ==
    /\ [](/\ Len(stack) <= 2
          /\ \A i \in DOMAIN stack : stack[i].level = i
          /\ explore_obs.recu \in {0, 1, 2}
          /\ (explore_obs.recu = 1) <=> (explore_obs.by = "readlist")
          /\ (explore_obs.recu = 2) => (explore_obs.by = "entry" /\ explore_obs.level = 1)
          /\ (explore_obs.by = "entry" /\ explore_obs.level = 2) => explore_obs.recu = 0)
    /\ [][(Len(stack') > Len(stack)) =>
             /\ Len(stack') = Len(stack) + 1
             /\ explore_obs'.recu = Len(stack')
             /\ Len(stack) = 1 => Top.level = 1]_vars

C12_Witness ==
    /\ Len(stack) = 2
    /\ usb_pc = "ex_loop"
    /\ explore_obs.by = "entry"
    /\ explore_obs.level = 2
    /\ explore_obs.fattrib = {"AM_DIR"}

\* C13: an invocation of level 1 calls explore_disk for an entry exactly when
\* the AM_DIR bit of the entry's attribute byte is set, whatever other bits
\* are set with it.
C13_DescendsIntoEveryDir ==
    (explore_obs.by = "entry" /\ explore_obs.level = 1) =>
        ((explore_obs.recu = 2) <=> ("AM_DIR" \in explore_obs.fattrib))

\* C14: in a build with USE_ENET0, USE_ENET1 and USE_DHCP, once
\* dhcp_addr_status has left DHCP_ADDR_NONE dhcp_start has been called exactly
\* once for g_mynetif0 and exactly once for g_mynetif1, and no call reads the
\* tries counter of an interface whose DHCP client was never started.
C14_DhcpStartedOnEach ==
    (net_cfg.enet = {0, 1} /\ net_cfg.USE_DHCP) =>
        /\ \A n \in Netifs : lib_calls[<<"dhcp_start", n>>] <= 1
        /\ (dhcp_addr_status # "DHCP_ADDR_NONE") =>
               \A n \in Netifs : lib_calls[<<"dhcp_start", n>>] = 1
        /\ ~dhcp_obs.ub

====
